---- MODULE Spec2Model ----
(***************************************************************************)
(* Model of parse_rhc_roster.py: the header classifier is_entry_header,   *)
(* the record extractor parse_entry_lines and the page scan of parse_pdf.  *)
(*                                                                         *)
(* A Python str is modelled as a sequence of one-character strings, so    *)
(* that the regular expressions of the source are evaluated character by  *)
(* character.  The empty str is << >>.                                     *)
(***************************************************************************)
EXTENDS Integers, Sequences, FiniteSets, TLC

VARIABLES
    \* ---- parse_pdf (src/parse_rhc_roster.py:115-157)
    pc,                   \* position in parse_pdf
    page_no,              \* number of pages of pdf.pages consumed so far
    lines,                \* text.split("\n") of the page being scanned
    i,                    \* index of the next line of data_lines
    current_entry_lines,  \* the open line-group
    entries,              \* the output list
    \* ---- history of the run, read only by the properties
    base,                 \* Len(entries) when the current page was opened
    expected,             \* concatenation of the segmentation of the pages done
    \* ---- direct calls of the two functions (as test_parse_rhc_roster.py)
    upc,                  \* position of the calling test
    lines_arg,            \* argument of parse_entry_lines
    entry,                \* its return value
    line_arg,             \* argument of is_entry_header
    is_header             \* its return value

vars == <<pc, page_no, lines, i, current_entry_lines, entries, base, expected,
          upc, lines_arg, entry, line_arg, is_header>>

pdf_vars == <<pc, page_no, lines, i, current_entry_lines, entries, base, expected>>
call_vars == <<upc, lines_arg, entry, line_arg, is_header>>

-----------------------------------------------------------------------------
(* Characters and character classes of Python's re for str patterns.       *)

\* [A-Z]
Upper ==
    {"A", "B", "C", "D", "E", "F", "G", "H", "I", "J", "K", "L", "M",
     "N", "O", "P", "Q", "R", "S", "T", "U", "V", "W", "X", "Y", "Z"}

\* \d (the ASCII digits; Python's \d also takes other Unicode decimal digits)
Digit == {"0", "1", "2", "3", "4", "5", "6", "7", "8", "9"}

\* \s and the characters str.strip() removes (the ASCII ones that TLA+ can
\* write; Python adds \v, \x1c-\x1f and the Unicode spaces to both)
WS == {" ", "\t", "\n", "\r", "\f"}

\* the other characters that occur in the inputs of this model
Other == {"a", "b", "c", "d", "e", "i", "l", "o", "s", "t", "x",
          "'", "(", ")", "-", ":", "/", ",", "."}

Char == Upper \cup Digit \cup WS \cup Other

\* . (any character but a newline)
Dot == Char \ {"\n"}

\* [A-Z\s']
TownClass == Upper \cup WS \cup {"'"}

\* [A-Z\s]
CountyClass == Upper \cup WS

-----------------------------------------------------------------------------
(* Regular expression pieces.  A position is the index of the next        *)
(* character to read; each piece maps a set of start positions to the set  *)
(* of positions where it can end.                                          *)

SetMax(S) == CHOOSE x \in S : \A y \in S : y <= x
SetMin(S) == CHOOSE x \in S : \A y \in S : x <= y

\* a literal
Lit(s, lit, P) ==
    {p + Len(lit) : p \in {q \in P : /\ q + Len(lit) - 1 <= Len(s)
                                     /\ SubSeq(s, q, q + Len(lit) - 1) = lit}}

\* C{n}
Rep(s, C, n, P) ==
    {p + n : p \in {q \in P : /\ q + n - 1 <= Len(s)
                              /\ \A k \in q..(q + n - 1) : s[k] \in C}}

\* C*
Star(s, C, P) ==
    {e \in 1..(Len(s) + 1) : \E p \in P : p <= e /\ \A k \in p..(e - 1) : s[k] \in C}

\* C+
Plus(s, C, P) ==
    {e \in 1..(Len(s) + 1) : \E p \in P : p < e /\ \A k \in p..(e - 1) : s[k] \in C}

\* lit?
Opt(s, lit, P) == P \cup Lit(s, lit, P)

\* str.strip()
strip(s) ==
    LET keep == {k \in 1..Len(s) : s[k] \notin WS}
    IN  IF keep = {} THEN << >> ELSE SubSeq(s, SetMin(keep), SetMax(keep))

\* str.startswith(prefix)
startswith(s, prefix) ==
    Len(prefix) <= Len(s) /\ SubSeq(s, 1, Len(prefix)) = prefix

\* s[n:]
DropFirst(s, n) == SubSeq(s, n + 1, Len(s))

\* the lexicographic order on tuples of positions of equal length
RECURSIVE LexLess(_, _)
LexLess(a, b) ==
    IF a = << >> THEN FALSE
    ELSE \/ Head(a) < Head(b)
         \/ Head(a) = Head(b) /\ LexLess(Tail(a), Tail(b))

\* The match a backtracking matcher finds first when every quantifier is
\* greedy: the longest choice for the first quantifier, then for the second...
GreedyFirst(M) == CHOOSE m \in M : \A n \in M : ~LexLess(m, n)

-----------------------------------------------------------------------------
(* Literals of the source.                                                 *)

RHC == <<"R", "H", "C", "-">>
FAX == <<"F", "A", "X", ":">>
CareOfMarker == <<"c", "/", "o", ":">>
TotalMarker ==
    <<"T", "o", "t", "a", "l", " ", "F", "a", "c", "i", "l", "i", "t", "i", "e", "s", ":">>

ZipDigits == 5
IdDigits == 6
AreaDigits == 3
ExchangeDigits == 3
NumberDigits == 4
MarkerLen == 4
FixedLines == 6
HeaderLineCount == 7

-----------------------------------------------------------------------------
(* The header pattern                                                      *)
(*   ^([A-Z\s']+)\s+\(([A-Z\s]+)\)\s+-\s+(\d{5})\s+(RHC-[A-Z])$           *)
(* A match is <<e1, p2, e2, p3, p4>>: group 1 is t[1..e1-1], group 2 is    *)
(* t[p2..e2-1], group 3 starts at p3 and group 4 at p4.  The pattern is    *)
(* applied to a stripped line, so $ is the end of the string.              *)

HeaderMatches(t) ==
    UNION {
      UNION {
        UNION {
          UNION {
            { <<e1, p2, e2, p3, p4>> :
                p4 \in { q \in Plus(t, WS, Rep(t, Digit, ZipDigits, {p3})) :
                           Rep(t, Upper, 1, Lit(t, RHC, {q})) = {Len(t) + 1} } }
            : p3 \in Plus(t, WS, Lit(t, <<"-">>, Plus(t, WS, Lit(t, <<")">>, {e2})))) }
          : e2 \in Plus(t, CountyClass, {p2}) }
        : p2 \in Lit(t, <<"(">>, Plus(t, WS, {e1})) }
      : e1 \in Plus(t, TownClass, {1}) }

\* The same pattern without the final $ (re.match anchors the start only).
HeaderMatchesUnanchored(t) ==
    UNION {
      UNION {
        UNION {
          UNION {
            { <<e1, p2, e2, p3, p4>> :
                p4 \in { q \in Plus(t, WS, Rep(t, Digit, ZipDigits, {p3})) :
                           Rep(t, Upper, 1, Lit(t, RHC, {q})) # {} } }
            : p3 \in Plus(t, WS, Lit(t, <<"-">>, Plus(t, WS, Lit(t, <<")">>, {e2})))) }
          : e2 \in Plus(t, CountyClass, {p2}) }
        : p2 \in Lit(t, <<"(">>, Plus(t, WS, {e1})) }
      : e1 \in Plus(t, TownClass, {1}) }

is_entry_header_unanchored(line) == HeaderMatchesUnanchored(strip(line)) # {}

\* is_entry_header(line): bool(re.match(..., line.strip()))
is_entry_header(line) == HeaderMatches(strip(line)) # {}

\* The four header fields of parse_entry_lines; all empty without a match.
header_fields(line) ==
    LET t == strip(line)
        M == HeaderMatches(t)
    IN  IF M = {}
        THEN [town |-> << >>, county |-> << >>, zip_code |-> << >>, facility_type |-> << >>]
        ELSE LET m == GreedyFirst(M)
             IN  [town          |-> strip(SubSeq(t, 1, m[1] - 1)),
                  county        |-> strip(SubSeq(t, m[2], m[3] - 1)),
                  zip_code      |-> SubSeq(t, m[4], m[4] + ZipDigits - 1),
                  facility_type |-> SubSeq(t, m[5], m[5] + Len(RHC))]

-----------------------------------------------------------------------------
(* The name line:  ^(.+?)\s+(\d{6})$  on the stripped line.                *)
(* A match is <<e1, p2>>: group 1 is t[1..e1-1], group 2 starts at p2.     *)

NameMatches(t) ==
    UNION {
      { <<e1, p2>> :
          p2 \in { q \in Plus(t, WS, {e1}) : Rep(t, Digit, IdDigits, {q}) = {Len(t) + 1} } }
      : e1 \in Plus(t, Dot, {1}) }

\* .+? is lazy: the shortest group 1 first, then the longest \s+.
NameFirst(M) ==
    CHOOSE m \in M : \A n \in M : \/ m[1] < n[1]
                                  \/ m[1] = n[1] /\ m[2] >= n[2]

name_fields_id_any_length(line) ==
    LET t == strip(line)
        M == UNION { { <<e1, p2>> :
                         p2 \in { q \in Plus(t, WS, {e1}) :
                                    Len(t) + 1 \in Plus(t, Digit, {q}) } }
                     : e1 \in Plus(t, Dot, {1}) }
    IN  IF M = {}
        THEN [facility_name |-> t, provider_id |-> << >>]
        ELSE LET m == NameFirst(M)
             IN  [facility_name |-> strip(SubSeq(t, 1, m[1] - 1)),
                  provider_id   |-> SubSeq(t, m[2], Len(t))]

\* facility_name and provider_id from lines[1]
name_fields(line) ==
    LET t == strip(line)
        M == NameMatches(t)
    IN  IF M = {}
        THEN [facility_name |-> t, provider_id |-> << >>]
        ELSE LET m == NameFirst(M)
             IN  [facility_name |-> strip(SubSeq(t, 1, m[1] - 1)),
                  provider_id   |-> SubSeq(t, m[2], m[2] + IdDigits - 1)]

-----------------------------------------------------------------------------
(* The phone line.                                                         *)

\* \d{3}-\d{4} from the positions P
LocalNumber(t, P) ==
    Rep(t, Digit, NumberDigits, Lit(t, <<"-">>, Rep(t, Digit, ExchangeDigits, P)))

\* f"({a}) {b}"
Canonical(a, b) == <<"(">> \o a \o <<")", " ">> \o b

\* ^\((\d{3})\)\s*(\d{3}-\d{4}) : a match is <<p2>>, the start of group 2;
\* group 1 is t[2..4].
PhoneMatches(t) ==
    { <<p2>> : p2 \in { q \in Star(t, WS, Lit(t, <<")">>,
                                   Rep(t, Digit, AreaDigits, Lit(t, <<"(">>, {1})))) :
                          LocalNumber(t, {q}) # {} } }

phone_field_verbatim(phone_line) ==
    LET M == PhoneMatches(phone_line)
    IN  IF M = {} THEN << >>
        ELSE LET m == GreedyFirst(M)
             IN  SubSeq(phone_line, 1,
                        m[1] + ExchangeDigits + NumberDigits)

\* entry["phone"] from phone_line = lines[3].strip()
phone_field(phone_line) ==
    LET M == PhoneMatches(phone_line)
    IN  IF M = {} THEN << >>
        ELSE LET m == GreedyFirst(M)
             IN  Canonical(SubSeq(phone_line, 2, 1 + AreaDigits),
                           SubSeq(phone_line, m[1],
                                  m[1] + ExchangeDigits + NumberDigits))

\* FAX:\s*\(?(\d{3})\)?\s*(\d{3}-\d{4}) starting at position k: a match is
\* <<k, a, b, c, d>>: \s* ends at a, \(? at b (group 1 is t[b..b+2]), \)? at
\* c and the second \s* at d, where group 2 starts.
FaxMatchesAt(t, k) ==
    UNION {
      UNION {
        UNION {
          { <<k, a, b, c, d>> :
              d \in { q \in Star(t, WS, {c}) : LocalNumber(t, {q}) # {} } }
          : c \in Opt(t, <<")">>, Rep(t, Digit, AreaDigits, {b})) }
        : b \in Opt(t, <<"(">>, {a}) }
      : a \in Star(t, WS, Lit(t, FAX, {k})) }

\* re.search: the leftmost start with a match, and there the greedy-first one.
FaxMatch(t) ==
    LET starts == {k \in 1..Len(t) : FaxMatchesAt(t, k) # {}}
    IN  IF starts = {} THEN << >> ELSE GreedyFirst(FaxMatchesAt(t, SetMin(starts)))

\* entry["fax"] from phone_line
fax_field(phone_line) ==
    LET m == FaxMatch(phone_line)
    IN  IF m = << >> THEN << >>
        ELSE Canonical(SubSeq(phone_line, m[3], m[3] + AreaDigits - 1),
                       SubSeq(phone_line, m[5],
                              m[5] + ExchangeDigits + NumberDigits))

-----------------------------------------------------------------------------
(* care_of: the first line of lines[6:] whose stripped form starts with    *)
(* "c/o:".                                                                 *)

care_of_from(ls, first) ==
    LET hits == {k \in first..Len(ls) : startswith(strip(ls[k]), CareOfMarker)}
    IN  IF hits = {} THEN << >>
        ELSE strip(DropFirst(strip(ls[SetMin(hits)]), MarkerLen))

care_of_any_line(ls) == care_of_from(ls, 1)

care_of_last(ls) ==
    LET hits == {k \in (FixedLines + 1)..Len(ls) : startswith(strip(ls[k]), CareOfMarker)}
    IN  IF hits = {} THEN << >>
        ELSE strip(DropFirst(strip(ls[SetMax(hits)]), MarkerLen))

care_of_field(ls) == care_of_from(ls, FixedLines + 1)

-----------------------------------------------------------------------------
(* parse_entry_lines                                                       *)

EmptyEntry ==
    [town |-> << >>, county |-> << >>, zip_code |-> << >>, facility_type |-> << >>,
     facility_name |-> << >>, provider_id |-> << >>, address |-> << >>,
     phone |-> << >>, fax |-> << >>, licensee |-> << >>, administrator |-> << >>,
     care_of |-> << >>]

parse_entry_lines(ls) ==
    IF ls = << >> THEN EmptyEntry
    ELSE
      LET h == header_fields(ls[1])
          n == IF Len(ls) > 1 THEN name_fields(ls[2])
               ELSE [facility_name |-> << >>, provider_id |-> << >>]
      IN  [town          |-> h.town,
           county        |-> h.county,
           zip_code      |-> h.zip_code,
           facility_type |-> h.facility_type,
           facility_name |-> n.facility_name,
           provider_id   |-> n.provider_id,
           address       |-> IF Len(ls) > 2 THEN strip(ls[3]) ELSE << >>,
           phone         |-> IF Len(ls) > 3 THEN phone_field(strip(ls[4])) ELSE << >>,
           fax           |-> IF Len(ls) > 3 THEN fax_field(strip(ls[4])) ELSE << >>,
           licensee      |-> IF Len(ls) > 4 THEN strip(ls[5]) ELSE << >>,
           administrator |-> IF Len(ls) > 5 THEN strip(ls[6]) ELSE << >>,
           care_of       |-> care_of_field(ls)]

-----------------------------------------------------------------------------
(* Inputs of the direct calls.  A header line is put together from a town,  *)
(* a gap, a county, a dash, a zip, a gap and a type, each drawn from a set  *)
(* that holds well-formed and malformed pieces; likewise the name line and  *)
(* the phone line.                                                         *)

Towns ==
    {<<"A">>,
     <<"O", "'", " ", "N">>,
     <<"A", "b">>,
     << >>}

TownGaps ==
    {<<" ">>,
     << >>,
     <<"\t">>}

Counties ==
    {<<"(", "B", ")">>,
     <<"(", " ", ")">>,
     <<"(", "B", " ", "C", ")">>,
     <<"B">>,
     <<"(", "b", ")">>}

Dashes ==
    {<<" ", "-", " ">>,
     <<"\t", "-", "\t">>,
     <<" ", " ", "-", " ", " ">>,
     <<" ">>,
     <<"-">>}

Zips ==
    {<<"1", "2", "3", "4", "5">>,
     <<"1", "2", "3", "4">>,
     <<"1", "2", "3", "4", "5", "6">>}

TypeGaps ==
    {<<" ">>,
     << >>}

Types ==
    {<<"R", "H", "C", "-", "C">>,
     <<"R", "H", "C", "-", "C", "C">>,
     <<"R", "H", "C", "-">>,
     << >>}

\* leading and trailing whitespace of a raw line
Pads == {<< << >>, << >> >>, << <<" ">>, <<"\t">> >>}

HeaderLineInputs ==
    {pad[1] \o town \o g1 \o county \o dash \o zip \o g2 \o type \o pad[2] :
        pad \in Pads, town \in Towns, g1 \in TownGaps, county \in Counties,
        dash \in Dashes, zip \in Zips, g2 \in TypeGaps, type \in Types}
    \cup {<< >>}

NameTexts ==
    {<< >>,
     <<"A", "C">>,
     <<"A", " ", "C">>,
     <<"1", "2">>,
     <<"A", " ", "1", "2", "3", "4", "5", "6">>,
     <<"a", ".", "b">>}

NameGaps ==
    {<< >>,
     <<" ">>,
     <<"\t">>,
     <<" ", " ">>}

Ids ==
    {<< >>,
     <<"2", "8", "3", "4", "9", "9">>,
     <<"2", "8", "3", "4", "9">>,
     <<"2", "8", "3", "4", "9", "9", "0">>,
     <<"2", "8", "3", "4", "9", "9", "x">>}

NameLineInputs ==
    {pad[1] \o text \o gap \o id \o pad[2] :
        pad \in Pads, text \in NameTexts, gap \in NameGaps, id \in Ids}

Areas ==
    {<<"(", "4", "0", "2", ")">>,
     <<"(", "4", "0", ")">>,
     <<"4", "0", "2">>,
     <<"(", "4", "0", "2", "2", ")">>}

AreaGaps ==
    {<< >>,
     <<" ">>,
     <<" ", " ">>,
     <<"\t">>}

Numbers ==
    {<<"9", "8", "8", "-", "2", "1", "8", "8">>,
     <<"9", "8", "8", "-", "2", "1", "8">>,
     <<"9", "8", "8", "2", "1", "8", "8">>,
     <<"9", "8", "8", "-", "2", "1", "8", "8", "9">>}

FaxParts ==
    {<< >>,
     <<" ", "F", "A", "X", ":">>,
     <<" ", "F", "A", "X", ":", "(", "3", "0", "8", ")", " ", "9", "6", "2", "-", "7", "9", "1", "6">>,
     <<" ", "F", "A", "X", ":", " ", "(", "3", "0", "8", ")", " ", "9", "6", "2", "-", "7", "9", "1", "6">>,
     <<" ", "F", "A", "X", ":", "3", "0", "8", " ", "9", "6", "2", "-", "7", "9", "1", "6">>,
     <<" ", "F", "A", "X", ":", "(", "3", "0", "8", ")", "9", "6", "2", "-", "7", "9", "1", "6">>,
     <<" ", "F", "A", "X", ":", "(", "3", "0", "8", " ", "9", "6", "2", "-", "7", "9", "1", "6">>,
     <<" ", "F", "A", "X", ":", "3", "0", "8", ")", " ", "9", "6", "2", "-", "7", "9", "1", "6">>,
     <<" ", "F", "A", "X", ":", "(", "3", "0", "8", ")", "\t", "9", "6", "2", "-", "7", "9", "1", "6">>,
     <<" ", "F", "A", "X", ":", "(", "3", "0", ")", " ", "9", "6", "2", "-", "7", "9", "1", "6">>,
     <<" ", "F", "A", "X", " ", "(", "3", "0", "8", ")", " ", "9", "6", "2", "-", "7", "9", "1", "6">>,
     <<" ", "F", "A", "X", ":", "(", "(", "3", "0", "8", ")", " ", "9", "6", "2", "-", "7", "9", "1", "6">>,
     <<" ", "F", "A", "X", ":", "(", "3", "0", "8", ")", " ", "9", "6", "2", "-", "7", "9", "1">>,
     <<" ", "F", "A", "X", ":", " ", "F", "A", "X", ":", "(", "3", "0", "8", ")", " ", "9", "6", "2", "-", "7", "9", "1", "6">>,
     <<"F", "A", "X", ":", "(", "3", "0", "8", ")", " ", "9", "6", "2", "-", "7", "9", "1", "6", " ", "F", "A", "X", ":", "(", "4", "0", "2", ")", " ", "9", "8", "8", "-", "2", "1", "8", "8">>}

PhoneLineInputs ==
    {pad[1] \o area \o gap \o number \o fax \o pad[2] :
        pad \in Pads, area \in Areas, gap \in AreaGaps, number \in Numbers,
        fax \in FaxParts}

\* whole lines
HeaderLine == <<"A", " ", "(", "B", ")", " ", "-", " ", "1", "2", "3", "4", "5", " ", "R", "H", "C", "-", "C">>
NameLine == <<"A", "C", " ", "2", "8", "3", "4", "9", "9">>
\* a header line whose county is a single space
HeaderLineBlankCounty == <<"A", " ", "(", " ", ")", " ", "-", " ", "1", "2", "3", "4", "5", " ", "R", "H", "C", "-", "C">>
AddressLine == <<"1", " ", "M", "A", "I", "N", " ", "S", "T">>
PhoneLine == <<"(", "4", "0", "2", ")", " ", "9", "8", "8", "-", "2", "1", "8", "8", " ", "F", "A", "X", ":">>
LicenseeLine == <<"J", "C", "H">>
AdminLine == <<"M", "K", ",", " ", "A", "D", "M", "I", "N">>
CareOfLine == <<"c", "/", "o", ":", " ", "X">>
CareOfLinePadded == <<" ", "c", "/", "o", ":", "Y", " ">>
CareOfLineBare == <<"c", "/", "o", ":">>
BlankLine == <<" ">>
TotalLine == <<" ", "T", "o", "t", "a", "l", " ", "F", "a", "c", "i", "l", "i", "t", "i", "e", "s", ":", " ", "5">>
TitleLine == <<"T", "i", "t", "l", "e">>

MaxTail == 3

\* the six fixed lines of a record, in order
StandardLines ==
    <<HeaderLine, NameLine, AddressLine, PhoneLine, LicenseeLine, AdminLine>>

\* the lines that may follow the six fixed ones
TailLines == {CareOfLine, CareOfLinePadded, CareOfLineBare, NameLine}

\* the first n <= 6 lines of a record, any of them replaced by a c/o line
Heads ==
    UNION { { [k \in 1..n |-> IF k \in S THEN CareOfLine ELSE StandardLines[k]] :
                S \in SUBSET (1..n) }
            : n \in 0..FixedLines }

Tails == UNION { [1..n -> TailLines] : n \in 0..MaxTail }

GroupInputs ==
    {h \o tl : h \in {x \in Heads : Len(x) = FixedLines}, tl \in Tails}
    \cup {x \in Heads : Len(x) < FixedLines}

EntryInputs ==
    GroupInputs
    \cup { <<l>> : l \in HeaderLineInputs }
    \cup { <<HeaderLine, l>> : l \in NameLineInputs }
    \cup { <<HeaderLine, NameLine, AddressLine, l>> : l \in PhoneLineInputs }

-----------------------------------------------------------------------------
(* Direct calls of is_entry_header and parse_entry_lines, one per run, as  *)
(* the unit tests make them.                                               *)

PdfIdle ==
    /\ pc = "idle"
    /\ page_no = 0
    /\ lines = << >>
    /\ i = 1
    /\ current_entry_lines = << >>
    /\ entries = << >>
    /\ base = 0
    /\ expected = << >>

InitCalls ==
    /\ PdfIdle
    /\ entry = EmptyEntry
    /\ is_header = FALSE
    /\ \/ upc = "header_test" /\ line_arg \in HeaderLineInputs /\ lines_arg = << >>
       \/ upc = "entry_test" /\ lines_arg \in EntryInputs /\ line_arg = << >>

CallIsEntryHeader ==
    /\ upc = "header_test"
    /\ is_header' = is_entry_header(line_arg)
    /\ upc' = "header_done"
    /\ UNCHANGED <<lines_arg, entry, line_arg>>
    /\ UNCHANGED pdf_vars

CallParseEntryLines ==
    /\ upc = "entry_test"
    /\ entry' = parse_entry_lines(lines_arg)
    /\ upc' = "entry_done"
    /\ UNCHANGED <<lines_arg, line_arg, is_header>>
    /\ UNCHANGED pdf_vars

NextCalls == CallIsEntryHeader \/ CallParseEntryLines

SpecCalls == InitCalls /\ [][NextCalls]_vars

-----------------------------------------------------------------------------
(* parse_pdf: the pages of the document are read one at a time; a page is  *)
(* the list text.split("\n") of its lines, or has no text.                 *)

MaxData == 4
MaxPages == 3

TitleLines == [k \in 1..HeaderLineCount |-> TitleLine]

\* 7 lines that hold a record and, as the last of them, a header
RecordInTitles ==
    [TitleLines EXCEPT ![1] = HeaderLine, ![2] = NameLine, ![HeaderLineCount] = HeaderLine]

DataLineInputs == {HeaderLine, NameLine, TotalLine}

\* data lines with a blank line: after a header, after a header and a total
\* line, before the first header, and inside a record
BlankLineData ==
    {<<HeaderLine, BlankLine>>,
     <<HeaderLine, BlankLine, NameLine>>,
     <<HeaderLine, TotalLine, BlankLine, NameLine>>,
     <<HeaderLine, BlankLine, HeaderLine, NameLine>>,
     <<BlankLine, HeaderLine, NameLine>>,
     <<HeaderLine, NameLine, BlankLine, NameLine>>}

\* data lines with a header whose county is blank
BlankCountyData ==
    {<<HeaderLineBlankCounty, NameLine>>}

\* A page: 7 title lines and up to MaxData lines, each a header, a name or a
\* total line, or the lines of BlankLineData or BlankCountyData; or a record and a header in the
\* first 7 lines and then nothing, a stray line, one record or two; or fewer
\* than 7 lines.
PageInputs ==
    {TitleLines \o d : d \in UNION { [1..n -> DataLineInputs] : n \in 0..MaxData }}
    \cup {TitleLines \o d : d \in BlankLineData}
    \cup {TitleLines \o d : d \in BlankCountyData}
    \cup {RecordInTitles \o d :
             d \in {<< >>, <<NameLine>>, <<HeaderLine, NameLine>>,
                    <<HeaderLine, NameLine, HeaderLine, NameLine>>}}
    \cup { <<HeaderLine, NameLine>> }

CallsIdle ==
    /\ upc = "idle"
    /\ lines_arg = << >>
    /\ entry = EmptyEntry
    /\ line_arg = << >>
    /\ is_header = FALSE

data_lines_skip_8(ls) == SubSeq(ls, HeaderLineCount + 2, Len(ls))

\* data_lines = lines[7:]
data_lines(ls) == SubSeq(ls, HeaderLineCount + 1, Len(ls))

is_total_line_unstripped(line) == startswith(line, TotalMarker)

\* line.strip().startswith("Total Facilities:")
is_total_line(line) == startswith(strip(line), TotalMarker)

close_entry_unfiltered(group, out) ==
    IF group = << >> THEN out ELSE Append(out, parse_entry_lines(group))

\* if current_entry_lines: entry = parse_entry_lines(current_entry_lines);
\*                         if entry["facility_name"]: entries.append(entry)
close_entry(group, out) ==
    IF group = << >> THEN out
    ELSE LET e == parse_entry_lines(group)
         IN  IF e.facility_name # << >> THEN Append(out, e) ELSE out

new_page_group_kept(group) == group

\* current_entry_lines = [] when the scan of a page starts
new_page_group(group) == << >>

-----------------------------------------------------------------------------
(* What the output is to be, stated on the lines of a page without         *)
(* reference to the scan (read by the properties and by expected only).    *)

IsTotalLine(l) ==
    \E t \in {strip(l)} : Len(t) >= Len(TotalMarker) /\ \A k \in 1..Len(TotalMarker) : t[k] = TotalMarker[k]

\* the lines of a page after its first 7
AfterBoilerplate(ls) ==
    [k \in 1..(IF Len(ls) > 7 THEN Len(ls) - 7 ELSE 0) |-> ls[k + 7]]

WithoutTotals(s) == SelectSeq(s, LAMBDA l : ~ IsTotalLine(l))

HeaderIdx(s) == {k \in 1..Len(s) : is_entry_header(s[k])}

\* the group that the header at h opens: up to the next header or the end
\* (H is the set of the header positions of s)
GroupFrom(s, H, h) ==
    SubSeq(s, h, SetMin({k \in H : k > h} \cup {Len(s) + 1}) - 1)

\* the groups of s, in order
Groups(s) ==
    LET H == HeaderIdx(s)
    IN  [j \in 1..Cardinality(H) |->
            GroupFrom(s, H, CHOOSE h \in H : Cardinality({x \in H : x < h}) = j - 1)]

Records(s) ==
    LET G == Groups(s)
    IN  [j \in 1..Len(G) |-> parse_entry_lines(G[j])]

HasName(e) == e.facility_name # << >>

\* the segmentation of one page
Segmentation(ls) == SelectSeq(Records(WithoutTotals(AfterBoilerplate(ls))), HasName)

-----------------------------------------------------------------------------
(* The actions of parse_pdf.                                               *)

Init ==
    /\ pc = "pages"
    /\ page_no = 0
    /\ lines = << >>
    /\ i = 1
    /\ current_entry_lines = << >>
    /\ entries = << >>
    /\ base = 0
    /\ expected = << >>
    /\ CallsIdle

\* pdf.pages[1:] : the first page is never looked at
SkipFirstPage ==
    /\ pc = "pages"
    /\ page_no = 0
    /\ page_no' = 1
    /\ UNCHANGED <<pc, lines, i, current_entry_lines, entries, base, expected>>
    /\ UNCHANGED call_vars

\* if not text: continue
PageWithoutText ==
    /\ pc = "pages"
    /\ page_no >= 1
    /\ page_no < MaxPages
    /\ page_no' = page_no + 1
    /\ UNCHANGED <<pc, lines, i, current_entry_lines, entries, base, expected>>
    /\ UNCHANGED call_vars

\* lines = text.split("\n"); data_lines = lines[7:]; current_entry_lines = []
OpenPage ==
    /\ pc = "pages"
    /\ page_no >= 1
    /\ page_no < MaxPages
    /\ \E page \in PageInputs : lines' = page
    /\ page_no' = page_no + 1
    /\ current_entry_lines' = new_page_group(current_entry_lines)
    /\ i' = 1
    /\ pc' = "scan"
    /\ base' = Len(entries)
    /\ UNCHANGED <<entries, expected>>
    /\ UNCHANGED call_vars

\* if line.strip().startswith("Total Facilities:"): continue
SkipTotalLine ==
    /\ pc = "scan"
    /\ i <= Len(data_lines(lines))
    /\ is_total_line(data_lines(lines)[i])
    /\ i' = i + 1
    /\ UNCHANGED <<pc, page_no, lines, current_entry_lines, entries, base, expected>>
    /\ UNCHANGED call_vars

\* if is_entry_header(line): close the open group, open a new one
StartEntry ==
    /\ pc = "scan"
    /\ i <= Len(data_lines(lines))
    /\ ~ is_total_line(data_lines(lines)[i])
    /\ is_entry_header(data_lines(lines)[i])
    /\ entries' = close_entry(current_entry_lines, entries)
    /\ current_entry_lines' = <<data_lines(lines)[i]>>
    /\ i' = i + 1
    /\ UNCHANGED <<pc, page_no, lines, base, expected>>
    /\ UNCHANGED call_vars

\* elif current_entry_lines: current_entry_lines.append(line)
AppendLine ==
    /\ pc = "scan"
    /\ i <= Len(data_lines(lines))
    /\ ~ is_total_line(data_lines(lines)[i])
    /\ ~ is_entry_header(data_lines(lines)[i])
    /\ current_entry_lines # << >>
    /\ current_entry_lines' = Append(current_entry_lines, data_lines(lines)[i])
    /\ i' = i + 1
    /\ UNCHANGED <<pc, page_no, lines, entries, base, expected>>
    /\ UNCHANGED call_vars

\* neither branch: a line before the first header of the page is dropped
DropLine ==
    /\ pc = "scan"
    /\ i <= Len(data_lines(lines))
    /\ ~ is_total_line(data_lines(lines)[i])
    /\ ~ is_entry_header(data_lines(lines)[i])
    /\ current_entry_lines = << >>
    /\ i' = i + 1
    /\ UNCHANGED <<pc, page_no, lines, current_entry_lines, entries, base, expected>>
    /\ UNCHANGED call_vars

\* after the loop: process the last entry of the page
EndPage ==
    /\ pc = "scan"
    /\ i > Len(data_lines(lines))
    /\ entries' = close_entry(current_entry_lines, entries)
    /\ expected' = expected \o Segmentation(lines)
    /\ pc' = "page_done"
    /\ UNCHANGED <<page_no, lines, i, current_entry_lines, base>>
    /\ UNCHANGED call_vars

\* Back to the head of the for loop over the pages.  lines, data_lines and the
\* line index are dead here (each is assigned again, at lines 126-136, before
\* it is read), so the model forgets them; current_entry_lines keeps its value
\* until line 134 assigns it.
NextPage ==
    /\ pc = "page_done"
    /\ pc' = "pages"
    /\ lines' = << >>
    /\ i' = 1
    /\ UNCHANGED <<page_no, current_entry_lines, entries, base, expected>>
    /\ UNCHANGED call_vars

\* the pages are exhausted: return entries
Return ==
    /\ pc = "pages"
    /\ pc' = "done"
    /\ UNCHANGED <<page_no, lines, i, current_entry_lines, entries, base, expected>>
    /\ UNCHANGED call_vars

Next ==
    \/ SkipFirstPage
    \/ PageWithoutText
    \/ OpenPage
    \/ SkipTotalLine
    \/ StartEntry
    \/ AppendLine
    \/ DropLine
    \/ EndPage
    \/ NextPage
    \/ Return

Spec == Init /\ [][Next]_vars

-----------------------------------------------------------------------------
(* Properties of the direct calls (checked under SpecCalls).               *)

AllIn(s, a, b, C) == \A k \in a..b : s[k] \in C

\* t is TOWN (COUNTY) - ZIP TYPE with single spaces: TOWN of upper-case
\* letters, spaces and apostrophes, COUNTY of upper-case letters and spaces,
\* ZIP of 5 digits, TYPE "RHC-" and one upper-case letter.
GrammarHeader(t) ==
    \E a \in 1..Len(t) : \E b \in (a + 3)..Len(t) :
        /\ Len(t) = b + 15
        /\ AllIn(t, 1, a, Upper \cup {" ", "'"})
        /\ SubSeq(t, a + 1, a + 2) = <<" ", "(">>
        /\ AllIn(t, a + 3, b, Upper \cup {" "})
        /\ SubSeq(t, b + 1, b + 4) = <<")", " ", "-", " ">>
        /\ AllIn(t, b + 5, b + 9, Digit)
        /\ t[b + 10] = " "
        /\ SubSeq(t, b + 11, b + 14) = RHC
        /\ t[b + 15] \in Upper

\* a hyphen with one character of Gap on each side, then (after more Gap
\* characters, if any) five digits
HasDashBeforeZip(t, Gap) ==
    \E k \in 1..Len(t) : \E z \in (k + 3)..Len(t) :
        /\ z + 4 <= Len(t)
        /\ t[k] \in Gap /\ t[k + 1] = "-" /\ t[k + 2] \in Gap
        /\ AllIn(t, k + 3, z - 1, Gap)
        /\ AllIn(t, z, z + 4, Digit)

\* a non-empty parenthesised run of upper-case letters and Gap characters
HasCounty(t, Gap) ==
    \E a \in 1..Len(t) : \E b \in (a + 2)..Len(t) :
        /\ t[a] = "(" /\ t[b] = ")"
        /\ AllIn(t, a + 1, b - 1, Upper \cup Gap)

\* the line ends with RHC- and one upper-case letter
HasTrailingType(t) ==
    /\ Len(t) >= 5
    /\ SubSeq(t, Len(t) - 4, Len(t) - 1) = RHC
    /\ t[Len(t)] \in Upper

\* C1 as stated: is_entry_header is true of every line whose trimmed form is
\* in the grammar, false of the empty string and false of every line without
\* the literal " - " (space, hyphen, space) before the zip, without the
\* parenthesised county or without the trailing RHC-X type.
C1_Original ==
    upc = "header_done" =>
        LET t == strip(line_arg)
        IN  /\ GrammarHeader(t) => is_header
            /\ is_header => /\ t # << >>
                            /\ HasDashBeforeZip(t, {" "})
                            /\ HasCounty(t, {" "})
                            /\ HasTrailingType(t)

\* C1 (amended): is_entry_header is true of every line whose trimmed form is
\* in the grammar, false of the empty string and false of every line without
\* a hyphen between whitespace (any whitespace character, not only a space)
\* before the zip, without the parenthesised county or without the trailing
\* RHC-X type.
C1_HeaderGrammar ==
    upc = "header_done" =>
        LET t == strip(line_arg)
        IN  /\ GrammarHeader(t) => is_header
            /\ is_header => /\ t # << >>
                            /\ HasDashBeforeZip(t, WS)
                            /\ HasCounty(t, WS)
                            /\ HasTrailingType(t)

C1_Witness ==
    /\ upc = "header_done"
    /\ is_header
    /\ GrammarHeader(strip(line_arg))
    /\ line_arg # strip(line_arg)

\* is a str of the model
IsStr(s) == s \in Seq(Char)

EntryFields ==
    {"town", "county", "zip_code", "facility_type", "facility_name", "provider_id",
     "address", "phone", "fax", "licensee", "administrator", "care_of"}

\* C5: parse_entry_lines returns a record with the 12 fields, each a str, for
\* every list of lines; for the empty list every field is empty, and with
\* fewer than 6 lines the field of every missing line position, and care_of,
\* is empty.
C5_Total ==
    upc = "entry_done" =>
        LET n == Len(lines_arg)
        IN  /\ DOMAIN entry = EntryFields
            /\ \A f \in EntryFields : IsStr(entry[f])
            /\ n = 0 => \A f \in EntryFields : entry[f] = << >>
            /\ n < 2 => entry.facility_name = << >> /\ entry.provider_id = << >>
            /\ n < 3 => entry.address = << >>
            /\ n < 4 => entry.phone = << >> /\ entry.fax = << >>
            /\ n < 5 => entry.licensee = << >>
            /\ n < 6 => entry.administrator = << >>
            /\ n < 7 => entry.care_of = << >>

C5_Witness ==
    /\ upc = "entry_done"
    /\ Len(lines_arg) = 3
    /\ startswith(strip(lines_arg[2]), CareOfMarker)
    /\ entry.address # << >>
    /\ entry.phone = << >>
    /\ entry.care_of = << >>

\* "{town} ({county}) - {zip_code} {facility_type}"
Reconstructed(e) ==
    e.town \o <<" ", "(">> \o e.county \o <<")", " ", "-", " ">> \o e.zip_code
        \o <<" ">> \o e.facility_type

HeaderOf(e) ==
    [town |-> e.town, county |-> e.county, zip_code |-> e.zip_code,
     facility_type |-> e.facility_type]

\* C6: for every record built from a first line that matched the header
\* grammar, the string reconstructed from its four header fields is again a
\* header and yields the same four fields.
C6_RoundTrip ==
    (upc = "entry_done" /\ lines_arg # << >> /\ is_entry_header(lines_arg[1])) =>
        /\ is_entry_header(Reconstructed(entry))
        /\ HeaderOf(parse_entry_lines(<<Reconstructed(entry)>>)) = HeaderOf(entry)

\* "(DDD) DDD-DDDD"
IsCanonical(p) ==
    /\ Len(p) = 14
    /\ p[1] = "(" /\ AllIn(p, 2, 4, Digit) /\ p[5] = ")" /\ p[6] = " "
    /\ AllIn(p, 7, 9, Digit) /\ p[10] = "-" /\ AllIn(p, 11, 14, Digit)

\* t[d..d+7] is DDD-DDDD
LocalAt(t, d) ==
    /\ d + 7 <= Len(t)
    /\ AllIn(t, d, d + 2, Digit) /\ t[d + 3] = "-" /\ AllIn(t, d + 4, d + 7, Digit)

\* t starts with (DDD), g characters of Gap and DDD-DDDD
PhoneShape(t, g, Gap) ==
    /\ Len(t) >= 5 + g
    /\ t[1] = "(" /\ AllIn(t, 2, 4, Digit) /\ t[5] = ")"
    /\ AllIn(t, 6, 5 + g, Gap)
    /\ LocalAt(t, 6 + g)

\* Somewhere in t: FAX:, a run of Gap characters no longer than MaxGap, an
\* optional "(", DDD, an optional ")", a run of Gap characters no longer than
\* MaxGap, DDD-DDDD.  (a is the first digit of the area code, d the first
\* digit of the local number.)
FaxShape(t, MaxGap, Gap) ==
    \E k \in 1..Len(t) :
        /\ k + 3 <= Len(t)
        /\ SubSeq(t, k, k + 3) = FAX
        /\ \E g1 \in 0..MaxGap : \E lp \in 0..1 :
               LET a == k + 4 + g1 + lp
               IN  /\ a + 2 <= Len(t)
                   /\ AllIn(t, k + 4, k + 3 + g1, Gap)
                   /\ lp = 1 => t[a - 1] = "("
                   /\ AllIn(t, a, a + 2, Digit)
                   /\ \E rp \in 0..1 : \E g2 \in 0..MaxGap :
                          LET d == a + 3 + rp + g2
                          IN  /\ rp = 1 => (a + 3 <= Len(t) /\ t[a + 3] = ")")
                              /\ d - 1 <= Len(t)
                              /\ AllIn(t, a + 3 + rp, d - 1, Gap)
                              /\ LocalAt(t, d)

\* The same with nothing between FAX: and the optional "(", and at most one
\* space before DDD-DDDD.
FaxShapeAsStated(t) ==
    \E k \in 1..Len(t) :
        /\ k + 3 <= Len(t)
        /\ SubSeq(t, k, k + 3) = FAX
        /\ \E lp \in 0..1 :
               LET a == k + 4 + lp
               IN  /\ a + 2 <= Len(t)
                   /\ lp = 1 => t[a - 1] = "("
                   /\ AllIn(t, a, a + 2, Digit)
                   /\ \E rp \in 0..1 : \E g2 \in 0..1 :
                          LET d == a + 3 + rp + g2
                          IN  /\ rp = 1 => (a + 3 <= Len(t) /\ t[a + 3] = ")")
                              /\ d - 1 <= Len(t)
                              /\ AllIn(t, a + 3 + rp, d - 1, {" "})
                              /\ LocalAt(t, d)

\* C7 as stated: phone and fax are empty or canonical; phone is set exactly
\* when the trimmed line starts with (DDD), an optional space and DDD-DDDD;
\* fax is set exactly when the line holds FAX: followed by an optional "(",
\* DDD, an optional ")", an optional space and DDD-DDDD.
C7_Original ==
    (upc = "entry_done" /\ Len(lines_arg) > 3) =>
        LET t == strip(lines_arg[4])
        IN  /\ entry.phone = << >> \/ IsCanonical(entry.phone)
            /\ entry.fax = << >> \/ IsCanonical(entry.fax)
            /\ entry.phone # << >> <=> \E g \in 0..1 : PhoneShape(t, g, {" "})
            /\ entry.fax # << >> <=> FaxShapeAsStated(t)

\* C7 (amended): phone and fax are empty or canonical; phone is set exactly
\* when the trimmed line starts with (DDD), any run of whitespace (possibly
\* empty) and DDD-DDDD, and is then "(DDD) DDD-DDDD" of those digits; fax is
\* set exactly when the line holds FAX: followed by any run of whitespace, an
\* optional "(", DDD, an optional ")", any run of whitespace and DDD-DDDD; a
\* line that ends with FAX: yields an empty fax.
C7_PhoneFax ==
    (upc = "entry_done" /\ Len(lines_arg) > 3) =>
        LET t == strip(lines_arg[4])
        IN  /\ entry.phone = << >> \/ IsCanonical(entry.phone)
            /\ entry.fax = << >> \/ IsCanonical(entry.fax)
            /\ entry.phone # << >> <=> \E g \in 0..Len(t) : PhoneShape(t, g, WS)
            /\ \A g \in 0..Len(t) : PhoneShape(t, g, WS) =>
                   entry.phone = Canonical(SubSeq(t, 2, 4), SubSeq(t, 6 + g, 13 + g))
            /\ entry.fax # << >> <=> FaxShape(t, Len(t), WS)
            /\ (Len(t) >= 4 /\ SubSeq(t, Len(t) - 3, Len(t)) = FAX) => entry.fax = << >>

C7_Witness ==
    /\ upc = "entry_done"
    /\ Len(lines_arg) > 3
    /\ IsCanonical(entry.phone)
    /\ IsCanonical(entry.fax)
    /\ entry.phone # entry.fax
    /\ ~ PhoneShape(strip(lines_arg[4]), 1, {" "})

\* the trimmed name line is text, whitespace and exactly 6 digits
NameIdShape(t) ==
    /\ Len(t) >= 8
    /\ AllIn(t, Len(t) - 5, Len(t), Digit)
    /\ t[Len(t) - 6] \in WS

\* C8: if the trimmed line at index 1 is text, whitespace and 6 digits at the
\* end, facility_name is the trimmed text before the digits and provider_id
\* the 6 digits; otherwise facility_name is the whole trimmed line and
\* provider_id is empty.  So provider_id is empty or 6 digits, and a record
\* with a provider_id has a facility_name.
C8_NameId ==
    (upc = "entry_done" /\ Len(lines_arg) > 1) =>
        LET t == strip(lines_arg[2])
        IN  /\ NameIdShape(t) =>
                /\ entry.facility_name = strip(SubSeq(t, 1, Len(t) - 6))
                /\ entry.provider_id = SubSeq(t, Len(t) - 5, Len(t))
            /\ ~ NameIdShape(t) =>
                /\ entry.facility_name = t
                /\ entry.provider_id = << >>
            /\ \/ entry.provider_id = << >>
               \/ Len(entry.provider_id) = 6 /\ AllIn(entry.provider_id, 1, 6, Digit)
            /\ entry.provider_id # << >> => entry.facility_name # << >>

C8_Witness ==
    /\ upc = "entry_done"
    /\ Len(lines_arg) = 2
    /\ entry.provider_id # << >>
    /\ \E k \in 1..Len(entry.facility_name) : entry.facility_name[k] \in Digit
    /\ lines_arg[2] # strip(lines_arg[2])

\* the trimmed line starts with c/o:
IsCareOf(l) == startswith(strip(l), CareOfMarker)

\* what follows the 4 characters of the marker, trimmed
AfterMarker(l) == strip(SubSeq(strip(l), 5, Len(strip(l))))

\* C9: care_of is the trimmed text after the marker of the first line at
\* index >= 6 that starts with c/o:; later c/o: lines and c/o: lines at an
\* index below 6 do not count; without such a line care_of is empty.
C9_CareOf ==
    upc = "entry_done" =>
        /\ (\A k \in 7..Len(lines_arg) : ~ IsCareOf(lines_arg[k])) => entry.care_of = << >>
        /\ \A k \in 7..Len(lines_arg) :
               (IsCareOf(lines_arg[k]) /\ \A j \in 7..(k - 1) : ~ IsCareOf(lines_arg[j]))
                   => entry.care_of = AfterMarker(lines_arg[k])

C9_Witness ==
    /\ upc = "entry_done"
    /\ Len(lines_arg) >= 9
    /\ IsCareOf(lines_arg[3])
    /\ ~ IsCareOf(lines_arg[7])
    /\ IsCareOf(lines_arg[8]) /\ IsCareOf(lines_arg[9])
    /\ AfterMarker(lines_arg[3]) # AfterMarker(lines_arg[8])
    /\ AfterMarker(lines_arg[9]) # AfterMarker(lines_arg[8])
    /\ entry.care_of = AfterMarker(lines_arg[8])
    /\ entry.care_of # << >>

-----------------------------------------------------------------------------
(* Properties of parse_pdf (checked under Spec).                           *)

\* the records the page being scanned has added to entries so far
PageOutput == SubSeq(entries, base + 1, Len(entries))

\* the scan of a page and its final flush are over
PageScanned == pc = "page_done"

\* s is k >= 0 groups, each a header line followed by lines that are neither
\* headers nor total lines, the first of them not blank
WellFormedGroups(s) ==
    /\ s # << >> => is_entry_header(s[1])
    /\ \A k \in 1..Len(s) : ~ IsTotalLine(s[k])
    /\ \A h \in HeaderIdx(s) :
           /\ h < Len(s)
           /\ ~ is_entry_header(s[h + 1])
           /\ strip(s[h + 1]) # << >>

NamelessGroup(s, h) ==
    \/ h = Len(s)
    \/ is_entry_header(s[h + 1])
    \/ strip(s[h + 1]) = << >>

\* C3: every record of the output has a facility_name; a page contributes one
\* record for each of its groups with a facility_name and none for the others
\* (a header followed by a header, by the end of the page or by a blank line);
\* the lines before the first header of a page contribute nothing.
C3_ValidityFilter ==
    /\ \A k \in 1..Len(entries) : entries[k].facility_name # << >>
    /\ PageScanned =>
          LET s == WithoutTotals(AfterBoilerplate(lines))
              H == HeaderIdx(s)
          IN  /\ Len(PageOutput) = Cardinality({h \in H : ~ NamelessGroup(s, h)})
              /\ \A h \in H :
                     NamelessGroup(s, h) =>
                         parse_entry_lines(GroupFrom(s, H, h)).facility_name = << >>
              /\ H = {} => PageOutput = << >>

C3_Witness ==
    /\ PageScanned
    /\ LET s == WithoutTotals(AfterBoilerplate(lines))
       IN  /\ s # << >>
           /\ \E h \in HeaderIdx(s) : h < Len(s) /\ strip(s[h + 1]) = << >>
           /\ Len(PageOutput) = 1

\* the last group of s, open at its end (none before the first header)
OpenGroup(s) ==
    LET H == HeaderIdx(s)
    IN  IF H = {} THEN << >> ELSE GroupFrom(s, H, SetMax(H))

\* the records of the groups of s that a later header has closed
ClosedRecords(s) ==
    LET H == HeaderIdx(s)
    IN  IF H = {} THEN << >>
        ELSE SelectSeq(Records(SubSeq(s, 1, SetMax(H) - 1)), HasName)

\* C4: a total line after the first 7 lines of a page neither ends nor starts
\* a group and is in no field: at every point of the scan the open group and
\* the records added are those of the lines read so far with the total lines
\* left out, and so is the output of the page.
C4_TotalLineSkipped ==
    /\ pc = "scan" =>
          LET s == WithoutTotals(SubSeq(AfterBoilerplate(lines), 1, i - 1))
          IN  /\ current_entry_lines = OpenGroup(s)
              /\ PageOutput = ClosedRecords(s)
    /\ PageScanned =>
          PageOutput = SelectSeq(Records(WithoutTotals(AfterBoilerplate(lines))), HasName)

C4_Witness ==
    /\ pc = "scan"
    /\ i > 3
    /\ is_entry_header(AfterBoilerplate(lines)[1])
    /\ IsTotalLine(AfterBoilerplate(lines)[2])
    /\ IsTotalLine(AfterBoilerplate(lines)[i - 1])
    /\ Len(current_entry_lines) = 2

\* a is a prefix of b
IsPrefix(a, b) == Len(a) <= Len(b) /\ SubSeq(b, 1, Len(a)) = a

\* C10: the output is the concatenation, in page order, of the segmentation
\* of every page but the first and those without text; a step only appends to
\* it; the first page and a page without text add nothing; the scan of a page
\* starts with no open group.
C10_DocumentOrder ==
    [][ /\ IsPrefix(entries, entries')
        /\ pc' \in {"page_done", "pages", "done"} => entries' = expected'
        /\ (pc = "pages" /\ pc' = "pages") => entries' = entries
        /\ (pc = "pages" /\ pc' = "scan") => current_entry_lines' = << >> ]_vars

C10_Witness ==
    /\ pc = "done"
    /\ page_no = MaxPages
    /\ base >= 1
    /\ Len(entries) > base + 1
    /\ entries = expected
    /\ current_entry_lines # << >>

-----------------------------------------------------------------------------
(* The header fields of the records of parse_pdf.                          *)

\* the header fields of a record, but for the county, are populated
HeaderFieldsButCounty(e) ==
    /\ e.town # << >>
    /\ Len(e.zip_code) = ZipDigits
    /\ AllIn(e.zip_code, 1, Len(e.zip_code), Digit)
    /\ Len(e.facility_type) = Len(RHC) + 1
    /\ SubSeq(e.facility_type, 1, Len(RHC)) = RHC
    /\ e.facility_type[Len(RHC) + 1] \in Upper

\* C11: every record returned by parse_pdf has a non-empty town, a non-empty
\* county, a zip_code of exactly 5 digits and a facility_type that is "RHC-"
\* followed by one upper-case letter.
C11_HeaderFields ==
    \A k \in 1..Len(entries) :
        HeaderFieldsButCounty(entries[k]) /\ entries[k].county # << >>

\* C11, the part that holds: town, zip_code and facility_type of every record
\* are populated, and every group handed to parse_entry_lines begins with a
\* line accepted by is_entry_header.
C11_FieldsButCounty ==
    /\ \A k \in 1..Len(entries) : HeaderFieldsButCounty(entries[k])
    /\ current_entry_lines # << >> => is_entry_header(current_entry_lines[1])

\* a returned document with a record of a blank county
C11_BlankCountyReturned ==
    /\ pc = "done"
    /\ \E k \in 1..Len(entries) :
           /\ entries[k].county = << >>
           /\ HeaderFieldsButCounty(entries[k])
           /\ entries[k].facility_name # << >>

====
